---- MODULE Spec2Model ----
(***************************************************************************)
(* Model of pkg/playbook/app/installer/pkcs12.go: the PKCS12Installer      *)
(* methods Check, Backup and Install, the helpers loadPKCS12,              *)
(* packageAsPKCS12 and getX509CertChain, and the file system they act on   *)
(* (the target file r.File and its sibling r.File + ".bak").               *)
(***************************************************************************)
EXTENDS Integers, Sequences, FiniteSets, TLC

(* ---------------------------- bounds ---------------------------------- *)
MaxTime == 2        \* time stamps (time.Now(), NotAfter) range over 0..MaxTime
MaxThreshold == 1   \* valid renewBefore durations range over 0..MaxThreshold
MaxChain == 2       \* longest pcc.Chain

Times == 0..MaxTime

\* what crypto/rand.Reader yields for one encoding: one of two salts
Salts == {0, 1}

(* ------------------------- values of the model ------------------------ *)
\* r.P12Password: the empty string, or a password
Passwords == {"", "pw1"}

\* the passwords a bundle found on disk can be encrypted with: the
\* installer's, and another one
BundlePasswords == {"pw1", "pw2"}

\* The content of a path of the file system.
\*   absent  - no file at the path
\*   junk    - a file that is not a PKCS#12 archive (corrupted content)
\*   partial - what an interrupted copy leaves behind
\*   p12     - the bytes pkcs12.Encode produced for (NotAfter, cas, password)
\*             with the random salt `salt'
Absent == [kind |-> "absent", NotAfter |-> 0, cas |-> 0, password |-> "", salt |-> 0]
Junk == [kind |-> "junk", NotAfter |-> 0, cas |-> 0, password |-> "", salt |-> 0]
Partial == [kind |-> "partial", NotAfter |-> 0, cas |-> 0, password |-> "", salt |-> 0]

P12(notAfter, cas, password, salt) ==
    [kind |-> "p12", NotAfter |-> notAfter, cas |-> cas, password |-> password, salt |-> salt]

\* A PEM text (a Go string of certificate.PEMCollection).
\*   form "empty" - the empty string
\*   form "text"  - a non-empty string holding no PEM block
\*   form "pem"   - one PEM block of type `type'; its bytes are a DER
\*                  certificate expiring at NotAfter when der is TRUE, and
\*                  corrupt DER otherwise
EmptyText == [form |-> "empty", type |-> "", der |-> FALSE, NotAfter |-> 0]
NoPemText == [form |-> "text", type |-> "", der |-> FALSE, NotAfter |-> 0]

PemText(type, der, notAfter) ==
    [form |-> "pem", type |-> type, der |-> der, NotAfter |-> notAfter]

\* the leaf certificate texts the model draws pcc.Certificate from
CertTexts ==
    {EmptyText, NoPemText, PemText("PRIVATE KEY", FALSE, 0), PemText("CERTIFICATE", FALSE, 0)}
        \cup {PemText("CERTIFICATE", TRUE, t) : t \in {1, MaxTime}}

\* the private key texts the model draws pcc.PrivateKey from
KeyTexts == {EmptyText, NoPemText, PemText("PRIVATE KEY", TRUE, 0)}

\* the chain entries: a good CA certificate, corrupt DER in a PEM block, no PEM block
ChainTexts == {PemText("CERTIFICATE", TRUE, MaxTime), PemText("CERTIFICATE", FALSE, 0), NoPemText}

SeqsUpTo(S, n) == UNION {[1..k -> S] : k \in 0..n}

\* certificate.PEMCollection: every collection up to MaxChain chain entries
PEMCollections ==
    [Certificate : CertTexts, PrivateKey : KeyTexts, Chain : SeqsUpTo(ChainTexts, MaxChain)]

\* a collection that packages: a good leaf, a good key, no chain
GoodCollection(t) ==
    [Certificate |-> PemText("CERTIFICATE", TRUE, t),
     PrivateKey |-> PemText("PRIVATE KEY", TRUE, 0), Chain |-> <<>>]

\* the collections handed to Install: the good ones, the good ones with one
\* field replaced by each text of that field (a chain of one entry), and
\* the ones with an empty leaf or key beside a malformed chain entry
InstallCollections ==
    UNION {{GoodCollection(t)}
             \cup {[GoodCollection(t) EXCEPT !.Certificate = c] : c \in CertTexts}
             \cup {[GoodCollection(t) EXCEPT !.PrivateKey = k] : k \in KeyTexts}
             \cup {[GoodCollection(t) EXCEPT !.Chain = <<c>>] : c \in ChainTexts}
             \cup {[GoodCollection(t) EXCEPT !.Certificate = EmptyText,
                                             !.Chain = <<NoPemText>>],
                   [GoodCollection(t) EXCEPT !.PrivateKey = EmptyText,
                                             !.Chain = <<NoPemText>>]}
           : t \in {1, MaxTime}}

\* renewBefore: an invalid expression, or a valid duration
BadThreshold == [valid |-> FALSE, d |-> 0]
Thresholds == {BadThreshold} \cup {[valid |-> TRUE, d |-> d] : d \in 0..MaxThreshold}

\* the files a cycle can find at the target path when it starts
InitialFiles ==
    {Absent, Junk} \cup {P12(t, 0, pw, 0) : t \in {1, MaxTime}, pw \in BundlePasswords}

(* --------------------------- library calls ---------------------------- *)
\* encoding/pem Decode: the first PEM block of the text, or nil
NilBlock == [isNil |-> TRUE, Type |-> "", der |-> FALSE, NotAfter |-> 0]

pem_Decode(text) ==
    IF text.form = "pem"
    THEN [isNil |-> FALSE, Type |-> text.type, der |-> text.der, NotAfter |-> text.NotAfter]
    ELSE NilBlock

\* crypto/x509 ParseCertificate on the bytes of a block
x509_ParseCertificate(block) ==
    IF block.der THEN [err |-> "nil", NotAfter |-> block.NotAfter]
    ELSE [err |-> "x509: malformed certificate", NotAfter |-> 0]

\* go-pkcs12 DecodeChain(data, password): the leaf certificate of the archive
pkcs12_DecodeChain(data, password) ==
    IF data.kind = "p12" /\ data.password = password
    THEN [err |-> "nil", NotAfter |-> data.NotAfter]
    ELSE [err |-> "pkcs12: decode error", NotAfter |-> 0]

\* go-pkcs12 Encode(rand, privateKey, cert, chainList, password)
pkcs12_Encode(salt, cert, chainList, password) ==
    P12(cert.NotAfter, Len(chainList), password, salt)

(* ------------------- helpers of the repository not in src/ ------------ *)
\* util.FileExists(path): whether a file is at the path. An absent file is
\* reported (false, nil); the probe of a present file can fail.
FileExists(f, statFault) ==
    IF f.kind = "absent" THEN [exists |-> FALSE, err |-> "nil"]
    ELSE IF statFault THEN [exists |-> FALSE, err |-> "stat: i/o error"]
    ELSE [exists |-> TRUE, err |-> "nil"]

\* util.CopyFile(src, dst): dst becomes a byte-for-byte copy of src; a failed
\* copy leaves dst as it was or torn, and never touches src.
CopyFile(src, dst, copyFault, torn) ==
    IF copyFault THEN [err |-> "copy: i/o error", dst |-> IF torn THEN Partial ELSE dst]
    ELSE [err |-> "nil", dst |-> src]

\* util.WriteFile(path, content): the whole buffer or nothing.
WriteFile(f, content, writeFault) ==
    IF writeFault THEN [err |-> "write: i/o error", file |-> f]
    ELSE [err |-> "nil", file |-> content]

\* needRenewal(cert, renewBefore): the possible answers. A certificate that
\* has expired at now + threshold is due; the answer for a threshold that
\* does not parse is not specified, and the function has no error to return.
needRenewal(cert, renewBefore, now) ==
    IF renewBefore.valid THEN {cert.NotAfter <= now + renewBefore.d} ELSE BOOLEAN

\* getPrivateKey(privateKey, keyPassword)
getPrivateKey(text, keyPassword) ==
    LET block == pem_Decode(text) IN
    IF block.isNil \/ block.Type # "PRIVATE KEY" \/ ~block.der
    THEN [err |-> "unable to parse private key"]
    ELSE [err |-> "nil"]

(* --------------------------- pkcs12.go -------------------------------- *)
\* os.ReadFile
os_ReadFile(f, readFault) ==
    IF f.kind = "absent" \/ readFault THEN [err |-> "read: i/o error", data |-> Absent]
    ELSE [err |-> "nil", data |-> f]

\* loadPKCS12 as it would be with the error of DecodeChain dropped
loadPKCS12_DropsDecodeError(f, keyPassword, readFault) ==
    LET rd == os_ReadFile(f, readFault) IN
    IF rd.err # "nil" THEN [err |-> rd.err, NotAfter |-> 0]
    ELSE [err |-> "nil", NotAfter |-> pkcs12_DecodeChain(rd.data, keyPassword).NotAfter]

loadPKCS12(f, keyPassword, readFault) ==
    LET rd == os_ReadFile(f, readFault) IN
    IF rd.err # "nil" THEN [err |-> rd.err, NotAfter |-> 0]
    ELSE pkcs12_DecodeChain(rd.data, keyPassword)

\* the nil byte slice
NoBytes == [kind |-> "nil", NotAfter |-> 0, cas |-> 0, password |-> "", salt |-> 0]

Panic == "panic: nil pointer dereference"

\* getX509CertChain(chain): [err, list]. chainBlock.Bytes is read without a
\* nil check, so an entry holding no PEM block panics.
RECURSIVE chainFrom(_, _, _)
chainFrom(chain, i, chainList) ==
    IF i > Len(chain) THEN [err |-> "nil", list |-> chainList]
    ELSE LET chainBlock == pem_Decode(chain[i]) IN
         IF chainBlock.isNil THEN [err |-> Panic, list |-> <<>>]
         ELSE LET parsed == x509_ParseCertificate(chainBlock) IN
              IF parsed.err # "nil"
              THEN [err |-> "failed to parse Chain Certificate bytes to X509.Certificate",
                    list |-> <<>>]
              ELSE chainFrom(chain, i + 1, Append(chainList, parsed))

getX509CertChain(chain) == chainFrom(chain, 1, <<>>)

\* packageAsPKCS12(pcc, keyPassword): [err, bytes]
packageAsPKCS12(pcc, keyPassword, salt) ==
    IF pcc.Certificate.form = "empty" \/ pcc.PrivateKey.form = "empty"
    THEN [err |-> "certificate and Private Key are required for PKCS12", bytes |-> NoBytes]
    ELSE LET certBlock == pem_Decode(pcc.Certificate) IN
    IF certBlock.isNil \/ certBlock.Type # "CERTIFICATE"
    THEN [err |-> "missing Certificate PEM", bytes |-> NoBytes]
    ELSE LET cert == x509_ParseCertificate(certBlock) IN
    IF cert.err # "nil"
    THEN [err |-> "failed to parse Certificate bytes to X509.Certificate object",
          bytes |-> NoBytes]
    ELSE LET chainRes == getX509CertChain(pcc.Chain) IN
    IF chainRes.err # "nil" THEN [err |-> chainRes.err, bytes |-> NoBytes]
    ELSE LET privateKey == getPrivateKey(pcc.PrivateKey, keyPassword) IN
    IF privateKey.err # "nil" THEN [err |-> privateKey.err, bytes |-> NoBytes]
    ELSE [err |-> "nil", bytes |-> pkcs12_Encode(salt, cert, chainRes.list, keyPassword)]

\* Check as it would be returning (false, nil) after the expiry test
Check_ReturnsFalse(f, P12Password, renewBefore, now, statFault, readFault) ==
    LET ex == FileExists(f, statFault) IN
    IF ex.err # "nil" THEN {[renew |-> FALSE, err |-> ex.err, calls |-> <<"FileExists">>]}
    ELSE IF ~ex.exists THEN {[renew |-> TRUE, err |-> "nil", calls |-> <<"FileExists">>]}
    ELSE LET cert == loadPKCS12(f, P12Password, readFault) IN
    IF cert.err # "nil"
    THEN {[renew |-> FALSE, err |-> cert.err, calls |-> <<"FileExists", "loadPKCS12">>]}
    ELSE {[renew |-> FALSE, err |-> "nil",
           calls |-> <<"FileExists", "loadPKCS12", "needRenewal">>]}

\* Check as it would be loading the bundle whether or not the file exists
Check_LoadsUnprobed(f, P12Password, renewBefore, now, statFault, readFault) ==
    LET cert == loadPKCS12(f, P12Password, readFault) IN
    IF cert.err # "nil" THEN {[renew |-> FALSE, err |-> cert.err, calls |-> <<"loadPKCS12">>]}
    ELSE {[renew |-> r, err |-> "nil", calls |-> <<"loadPKCS12", "needRenewal">>] :
             r \in needRenewal(cert, renewBefore, now)}

\* PKCS12Installer.Check(renewBefore): the possible (renew, err), with the
\* helpers it called
Check(f, P12Password, renewBefore, now, statFault, readFault) ==
    LET ex == FileExists(f, statFault) IN
    IF ex.err # "nil" THEN {[renew |-> FALSE, err |-> ex.err, calls |-> <<"FileExists">>]}
    ELSE IF ~ex.exists THEN {[renew |-> TRUE, err |-> "nil", calls |-> <<"FileExists">>]}
    ELSE LET cert == loadPKCS12(f, P12Password, readFault) IN
    IF cert.err # "nil"
    THEN {[renew |-> FALSE, err |-> cert.err, calls |-> <<"FileExists", "loadPKCS12">>]}
    ELSE {[renew |-> r, err |-> "nil", calls |-> <<"FileExists", "loadPKCS12", "needRenewal">>] :
             r \in needRenewal(cert, renewBefore, now)}

\* Backup as it would be refusing to overwrite an existing backup file
Backup_Exclusive(f, b, statFault, copyFault, torn) ==
    LET ex == FileExists(f, statFault) IN
    IF ex.err # "nil" THEN [err |-> ex.err, file |-> f, bak |-> b]
    ELSE IF ~ex.exists THEN [err |-> "nil", file |-> f, bak |-> b]
    ELSE IF b.kind # "absent" THEN [err |-> "copy: file exists", file |-> f, bak |-> b]
    ELSE LET cp == CopyFile(f, b, copyFault, torn) IN
         [err |-> cp.err, file |-> f, bak |-> cp.dst]

\* Backup as it would be copying without the existence test
Backup_Unprobed(f, b, statFault, copyFault, torn) ==
    IF f.kind = "absent" THEN [err |-> "copy: no such file", file |-> f, bak |-> b]
    ELSE LET cp == CopyFile(f, b, copyFault, torn) IN
         [err |-> cp.err, file |-> f, bak |-> cp.dst]

\* Backup as it would be returning nil when the copy failed
Backup_DropsCopyError(f, b, statFault, copyFault, torn) ==
    LET ex == FileExists(f, statFault) IN
    IF ex.err # "nil" THEN [err |-> ex.err, file |-> f, bak |-> b]
    ELSE IF ~ex.exists THEN [err |-> "nil", file |-> f, bak |-> b]
    ELSE LET cp == CopyFile(f, b, copyFault, torn) IN
         [err |-> "nil", file |-> f, bak |-> cp.dst]

\* Backup as it would be returning nil before the copy is made
Backup_NoCopy(f, b, statFault, copyFault, torn) ==
    LET ex == FileExists(f, statFault) IN
    IF ex.err # "nil" THEN [err |-> ex.err, file |-> f, bak |-> b]
    ELSE [err |-> "nil", file |-> f, bak |-> b]

\* PKCS12Installer.Backup(): [err, file, bak], file the content of r.File and
\* bak the content of r.File + ".bak" when it returns
Backup(f, b, statFault, copyFault, torn) ==
    LET ex == FileExists(f, statFault) IN
    IF ex.err # "nil" THEN [err |-> ex.err, file |-> f, bak |-> b]
    ELSE IF ~ex.exists THEN [err |-> "nil", file |-> f, bak |-> b]
    ELSE LET cp == CopyFile(f, b, copyFault, torn) IN
    IF cp.err # "nil" THEN [err |-> cp.err, file |-> f, bak |-> cp.dst]
    ELSE [err |-> cp.err, file |-> f, bak |-> cp.dst]

\* Install as it would be without the test for an empty password
Install_NoPasswordTest(f, P12Password, pcc, salt, writeFault) ==
    LET pk == packageAsPKCS12(pcc, P12Password, salt) IN
    IF pk.err # "nil" THEN [err |-> pk.err, file |-> f, calls |-> <<"packageAsPKCS12">>]
    ELSE LET w == WriteFile(f, pk.bytes, writeFault) IN
         [err |-> w.err, file |-> w.file, calls |-> <<"packageAsPKCS12", "WriteFile">>]

\* PKCS12Installer.Install(pcc): [err, file, calls], file the content of r.File
Install(f, P12Password, pcc, salt, writeFault) ==
    IF P12Password = "" THEN [err |-> "ErrNoP12Password", file |-> f, calls |-> <<>>]
    ELSE LET pk == packageAsPKCS12(pcc, P12Password, salt) IN
    IF pk.err # "nil" THEN [err |-> pk.err, file |-> f, calls |-> <<"packageAsPKCS12">>]
    ELSE LET w == WriteFile(f, pk.bytes, writeFault) IN
    IF w.err # "nil"
    THEN [err |-> w.err, file |-> w.file, calls |-> <<"packageAsPKCS12", "WriteFile">>]
    ELSE [err |-> "nil", file |-> w.file, calls |-> <<"packageAsPKCS12", "WriteFile">>]

(* ------------------------------ state --------------------------------- *)
VARIABLES
    file,         \* content of r.File
    bak,          \* content of r.File + ".bak"
    P12Password,  \* r.P12Password
    last,         \* the last call of an installer method: its inputs, whether a
                  \* file was at r.File, what the call changed, and its result
    pc,           \* the step a sequential installation cycle is at
    start,        \* content of r.File when that cycle started
    cpc,          \* the step each of two concurrent cycles is at
    orig,         \* content of r.File before the concurrent cycles started
    backedUp,     \* what each concurrent cycle's Backup copied
    written,      \* what each concurrent cycle's Install wrote
    pkg           \* a call of packageAsPKCS12: inputs and result

vars == <<file, bak, P12Password, last, pc, start, cpc, orig, backedUp, written, pkg>>

\* a backup file left by an earlier cycle, or none
InitialBaks == {Absent, P12(0, 0, "pw1", 0)}

NoCall ==
    [op |-> "none", again |-> FALSE, ioFault |-> FALSE, renewBefore |-> BadThreshold, now |-> 0,
     Certificate |-> EmptyText, PrivateKey |-> EmptyText,
     hadFile |-> FALSE, fileChanged |-> FALSE, bakChanged |-> FALSE, renew |-> FALSE, err |-> "nil", calls |-> <<>>]

NoPackaging ==
    [pcc |-> [Certificate |-> EmptyText, PrivateKey |-> EmptyText, Chain |-> <<>>],
     keyPassword |-> "", called |-> FALSE, err |-> "nil", bytes |-> NoBytes]

Cycles == {1, 2}

Init ==
    /\ file \in InitialFiles
    /\ bak \in InitialBaks
    /\ P12Password \in Passwords
    /\ last = NoCall
    /\ pc = "Check"
    /\ start = file
    /\ cpc = [c \in Cycles |-> "Check"]
    /\ orig = file
    /\ backedUp = [c \in Cycles |-> NoBytes]
    /\ written = [c \in Cycles |-> NoBytes]
    /\ pkg = NoPackaging

(* ------------- the installer's methods, called in any order ----------- *)
CallCheck ==
    \E renewBefore \in Thresholds, now \in Times, statFault \in BOOLEAN, readFault \in BOOLEAN :
      \E res \in Check(file, P12Password, renewBefore, now, statFault, readFault) :
        /\ last' = [NoCall EXCEPT !.op = "Check", !.ioFault = (statFault \/ readFault),
                                  !.renewBefore = renewBefore, !.now = now,
                                  !.hadFile = (file.kind # "absent"),
                                  !.renew = res.renew, !.err = res.err, !.calls = res.calls]
        /\ UNCHANGED <<file, bak, P12Password, pc, start, cpc, orig, backedUp, written, pkg>>

CallBackup ==
    \E statFault \in BOOLEAN, copyFault \in BOOLEAN, torn \in BOOLEAN :
      LET res == Backup(file, bak, statFault, copyFault, torn) IN
        /\ file' = res.file
        /\ bak' = res.bak
        /\ last' = [NoCall EXCEPT !.op = "Backup", !.ioFault = (statFault \/ copyFault),
                                  !.again = (last.op = "Backup" /\ last.err = "nil"),
                                  !.hadFile = (file.kind # "absent"),
                                  !.fileChanged = (res.file # file),
                                  !.bakChanged = (res.bak # bak), !.err = res.err]
        /\ UNCHANGED <<P12Password, pc, start, cpc, orig, backedUp, written, pkg>>

CallInstall ==
    \E pcc \in InstallCollections, salt \in Salts, writeFault \in BOOLEAN :
      LET res == Install(file, P12Password, pcc, salt, writeFault) IN
        /\ file' = res.file
        /\ last' = [NoCall EXCEPT !.op = "Install", !.ioFault = writeFault,
                                  !.Certificate = pcc.Certificate,
                                  !.PrivateKey = pcc.PrivateKey,
                                  !.hadFile = (file.kind # "absent"),
                                  !.fileChanged = (res.file # file),
                                  !.err = res.err, !.calls = res.calls]
        /\ UNCHANGED <<bak, P12Password, pc, start, cpc, orig, backedUp, written, pkg>>

Next == CallCheck \/ CallBackup \/ CallInstall

Spec == Init /\ [][Next]_vars

(* ---------------- one installation cycle after another ---------------- *)
\* The caller runs Check, then Backup, then Install; an error of a step ends
\* the cycle, and so does Check answering that no renewal is needed. A panic
\* ends the process. The next cycle starts from the files the last one left.
CycleCheck ==
    /\ pc = "Check"
    /\ \E renewBefore \in Thresholds, now \in Times, statFault \in BOOLEAN, readFault \in BOOLEAN :
         \E res \in Check(file, P12Password, renewBefore, now, statFault, readFault) :
           pc' = IF res.err # "nil" THEN "failed" ELSE IF res.renew THEN "Backup" ELSE "skipped"
    /\ UNCHANGED <<file, bak, P12Password, last, start, cpc, orig, backedUp, written, pkg>>

CycleBackup ==
    /\ pc = "Backup"
    /\ \E statFault \in BOOLEAN, copyFault \in BOOLEAN, torn \in BOOLEAN :
         LET res == Backup(file, bak, statFault, copyFault, torn) IN
           /\ file' = res.file
           /\ bak' = res.bak
           /\ pc' = IF res.err # "nil" THEN "failed" ELSE "Install"
    /\ UNCHANGED <<P12Password, last, start, cpc, orig, backedUp, written, pkg>>

CycleInstall ==
    /\ pc = "Install"
    /\ \E pcc \in InstallCollections, salt \in Salts, writeFault \in BOOLEAN :
         LET res == Install(file, P12Password, pcc, salt, writeFault) IN
           /\ file' = res.file
           /\ pc' = IF res.err = Panic THEN "crashed"
                    ELSE IF res.err # "nil" THEN "failed" ELSE "done"
    /\ UNCHANGED <<bak, P12Password, last, start, cpc, orig, backedUp, written, pkg>>

CycleRestart ==
    /\ pc \in {"done", "skipped", "failed", "crashed"}
    /\ pc' = "Check"
    /\ start' = file
    /\ UNCHANGED <<file, bak, P12Password, last, cpc, orig, backedUp, written, pkg>>

NextCycle == CycleCheck \/ CycleBackup \/ CycleInstall \/ CycleRestart

SpecCycle == Init /\ [][NextCycle]_vars

(* -------------- two cycles at once on the same target path ------------ *)
\* No lock is taken: the calls of the two cycles interleave freely. Each
\* call acts on the files in one step.
ConcCheck(c) ==
    /\ cpc[c] = "Check"
    /\ \E renewBefore \in Thresholds, now \in Times, statFault \in BOOLEAN, readFault \in BOOLEAN :
         \E res \in Check(file, P12Password, renewBefore, now, statFault, readFault) :
           cpc' = [cpc EXCEPT ![c] = IF res.err # "nil" THEN "failed"
                                     ELSE IF res.renew THEN "Backup" ELSE "skipped"]
    /\ UNCHANGED <<file, bak, P12Password, last, pc, start, orig, backedUp, written, pkg>>

ConcBackup(c) ==
    /\ cpc[c] = "Backup"
    /\ \E statFault \in BOOLEAN, copyFault \in BOOLEAN, torn \in BOOLEAN :
         LET res == Backup(file, bak, statFault, copyFault, torn) IN
           /\ file' = res.file
           /\ bak' = res.bak
           /\ backedUp' = [backedUp EXCEPT ![c] = IF res.err = "nil" /\ file.kind # "absent"
                                                 THEN res.bak ELSE @]
           /\ cpc' = [cpc EXCEPT ![c] = IF res.err # "nil" THEN "failed" ELSE "Install"]
    /\ UNCHANGED <<P12Password, last, pc, start, orig, written, pkg>>

ConcInstall(c) ==
    /\ cpc[c] = "Install"
    /\ \E pcc \in InstallCollections, salt \in Salts, writeFault \in BOOLEAN :
         LET res == Install(file, P12Password, pcc, salt, writeFault) IN
           /\ file' = res.file
           /\ written' = [written EXCEPT ![c] = IF res.err = "nil" THEN res.file ELSE @]
           /\ cpc' = [cpc EXCEPT ![c] = IF res.err = Panic THEN "crashed"
                                        ELSE IF res.err # "nil" THEN "failed" ELSE "done"]
    /\ UNCHANGED <<bak, P12Password, last, pc, start, orig, backedUp, pkg>>

NextConc == \E c \in Cycles : ConcCheck(c) \/ ConcBackup(c) \/ ConcInstall(c)

SpecConc == Init /\ [][NextConc]_vars

(* ----------------------- packaging on its own ------------------------- *)
InitPackage ==
    /\ file = Absent
    /\ bak = Absent
    /\ P12Password = ""
    /\ last = NoCall
    /\ pc = "Check"
    /\ start = Absent
    /\ cpc = [c \in Cycles |-> "Check"]
    /\ orig = Absent
    /\ backedUp = [c \in Cycles |-> NoBytes]
    /\ written = [c \in Cycles |-> NoBytes]
    /\ pkg \in [pcc : PEMCollections, keyPassword : Passwords, called : {FALSE},
                err : {"nil"}, bytes : {NoBytes}]

Package ==
    /\ ~pkg.called
    /\ \E salt \in Salts :
         LET res == packageAsPKCS12(pkg.pcc, pkg.keyPassword, salt) IN
           pkg' = [pkg EXCEPT !.called = TRUE, !.err = res.err, !.bytes = res.bytes]
    /\ UNCHANGED <<file, bak, P12Password, last, pc, start, cpc, orig, backedUp, written>>

NextPackage == Package

SpecPackage == InitPackage /\ [][NextPackage]_vars

(* ------------------------ claims on the methods ----------------------- *)
Called(name) == \E i \in DOMAIN last.calls : last.calls[i] = name

\* the file at r.File is a bundle that decodes with the configured password
Decodes == pkcs12_DecodeChain(file, P12Password).err = "nil"

\* C2: when a file is at the target path and does not decode with the
\* configured password (wrong password, corrupted content), Check returns a
\* non-nil error, never a renewal decision with a nil error.
C2_UndecodableIsError ==
    (last.op = "Check" /\ last.hadFile /\ ~Decodes) => last.err # "nil"

C2_Witness ==
    /\ last.op = "Check"
    /\ file.kind = "p12" /\ file.password # P12Password /\ P12Password # ""
    /\ ~last.ioFault
    /\ last.err = "pkcs12: decode error"
    /\ ~last.renew

\* C3: for a bundle that decodes with the configured password and a valid
\* threshold, Check returns (true, nil) exactly when the leaf's expiry is at
\* or before now + threshold, and (false, nil) exactly when it is after.
C3_RenewalDecision ==
    (last.op = "Check" /\ Decodes /\ last.renewBefore.valid /\ ~last.ioFault)
        => /\ last.err = "nil"
           /\ last.renew <=> (file.NotAfter <= last.now + last.renewBefore.d)

\* the boundary: the expiry is exactly now + threshold, with a threshold > 0
C3_Witness ==
    /\ last.op = "Check" /\ Decodes /\ last.renewBefore.valid /\ ~last.ioFault
    /\ last.renewBefore.d > 0
    /\ file.NotAfter = last.now + last.renewBefore.d
    /\ last.renew /\ last.err = "nil"

\* C4: when the bundle decodes and the threshold expression is invalid,
\* Check returns a non-nil error instead of a renewal decision.
C4_BadThresholdIsError ==
    (last.op = "Check" /\ Decodes /\ ~last.renewBefore.valid /\ ~last.ioFault)
        => last.err # "nil"

\* C6: whenever Backup returns success with a file at the target path, the
\* backup file equals the target file and the target file is unmodified,
\* whether or not a backup file existed; and with no I/O failure Backup
\* succeeds, also right after a successful Backup.
C6_BackupCopies ==
    /\ (last.op = "Backup" /\ last.hadFile /\ last.err = "nil")
           => (bak = file /\ ~last.fileChanged)
    /\ (last.op = "Backup" /\ last.hadFile /\ ~last.ioFault) => last.err = "nil"

\* the second of two Backups in a row, over the backup the first one made
C6_Witness ==
    /\ last.op = "Backup" /\ last.again /\ last.hadFile
    /\ last.err = "nil" /\ ~last.bakChanged
    /\ bak = file /\ file.kind = "p12"

\* C7: Install returns an error and writes nothing to the target path when
\* the password is empty or the leaf certificate text or the private key
\* text is empty; with an empty password packaging is not attempted.
C7_RejectsMissingInput ==
    (/\ last.op = "Install"
     /\ \/ P12Password = ""
        \/ last.Certificate = EmptyText
        \/ last.PrivateKey = EmptyText)
        => /\ last.err \notin {"nil", Panic}
           /\ ~last.fileChanged
           /\ ~Called("WriteFile")
           /\ P12Password = "" => ~Called("packageAsPKCS12")

C7_Witness ==
    /\ last.op = "Install" /\ P12Password = ""
    /\ last.Certificate.der /\ last.PrivateKey.der
    /\ last.hadFile /\ last.err = "ErrNoP12Password"

\* C8: when no file is at the target path, Check returns (true, nil) for
\* every threshold and every password, without loading a bundle.
C8_NoFileNeedsInstall ==
    (last.op = "Check" /\ ~last.hadFile)
        => (last.renew /\ last.err = "nil" /\ ~Called("loadPKCS12"))

C8_Witness ==
    /\ last.op = "Check" /\ ~last.hadFile
    /\ ~last.renewBefore.valid /\ P12Password = ""
    /\ last.renew /\ last.err = "nil"

\* C9: when no file is at the target path, Backup returns nil and creates no
\* backup file; a backup file of an earlier cycle is left unchanged.
C9_NoFileNoBackup ==
    (last.op = "Backup" /\ ~last.hadFile)
        => (last.err = "nil" /\ ~last.bakChanged /\ ~last.fileChanged)

C9_Witness ==
    /\ last.op = "Backup" /\ ~last.hadFile /\ last.err = "nil"
    /\ bak.kind = "p12"

(* ------------------------ claims on the cycles ------------------------ *)
\* C1: in a cycle Check -> Backup -> Install whose steps stop at the first
\* error, whenever a file was at the target path when the cycle started and
\* the target now differs from it, the backup file holds what the target
\* held at the start.
C1_OverwriteOnlyAfterBackup ==
    (start.kind # "absent" /\ file # start) => bak = start

C1_Witness ==
    /\ pc = "done"
    /\ start.kind = "p12" /\ file.kind = "p12" /\ file # start
    /\ bak = start

\* C10: when two concurrent cycles have both completed and neither the
\* target nor the backup file holds the bundle they started from, the backup
\* file is what one cycle's Backup copied after the other cycle's Install
\* had overwritten the target.
C10_LostOriginalIsRacedBackup ==
    (/\ \A c \in Cycles : cpc[c] = "done"
     /\ orig.kind # "absent" /\ file # orig /\ bak # orig)
        => \E c \in Cycles, d \in Cycles :
              c # d /\ backedUp[c] = written[d] /\ bak = backedUp[c]

\* the interleaving is reachable: both cycles done, the original in neither file
C10_Witness ==
    /\ \A c \in Cycles : cpc[c] = "done"
    /\ orig.kind = "p12"
    /\ file.kind = "p12" /\ file # orig
    /\ bak.kind = "p12" /\ bak # orig
    /\ \E c \in Cycles, d \in Cycles : c # d /\ bak = written[d] /\ file = written[c]

\* C5: for a collection with a valid leaf and key whose chain has an entry
\* that is no PEM block, packaging returns a non-nil error and no bytes,
\* wherever the entry is; it does not crash.
C5_MalformedChainIsError ==
    (/\ pkg.called
     /\ x509_ParseCertificate(pem_Decode(pkg.pcc.Certificate)).err = "nil"
     /\ pem_Decode(pkg.pcc.Certificate).Type = "CERTIFICATE"
     /\ getPrivateKey(pkg.pcc.PrivateKey, pkg.keyPassword).err = "nil"
     /\ \E i \in DOMAIN pkg.pcc.Chain : pem_Decode(pkg.pcc.Chain[i]).isNil)
        => (pkg.err \notin {"nil", Panic} /\ pkg.bytes = NoBytes)

====
